---- MODULE Spec2Model ----
(***************************************************************************)
(* Model of the student group-allocation notebook                          *)
(* (src/notebooks/class_allocation.py): standardize_name,                  *)
(* fuzzy_match_friends, build_friendship_graph, allocate_groups,           *)
(* balance_groups and validate_groups; and of categorize_attendance of the *)
(* attendance notebook (src/apps/attendance_data.py).                      *)
(*                                                                         *)
(* Student names in the allocator are opaque identities; they are          *)
(* modelled as natural numbers (a roster of uniquely named students is     *)
(* <<1, ..., n>>, 0 is a name that is not on the roster).  Python lists    *)
(* are 0-based, sequences here are 1-based; the index 0 stands for None.   *)
(***************************************************************************)
EXTENDS Integers, Sequences, FiniteSets, TLC

VARIABLES
    students,          \* df['Student Name'].tolist()
    friendship_graph,  \* Dict[str, List[str]]
    num_groups,        \* the num_groups argument
    groups,            \* List[List[str]], the partition being built
    allocated,         \* the set of students placed so far
    pos,               \* position of the first pass in student_priority
    iteration,         \* balance_groups' loop counter
    moves,             \* number of students balance_groups has moved
    validation,        \* the report of validate_groups (<<>> before it ran)
    pc,                \* where the run is
    name,              \* the argument of standardize_name
    std_name,          \* the result of standardize_name
    friend_names,      \* fuzzy_match_friends' friend_names
    student_list,      \* fuzzy_match_friends' student_list
    threshold,         \* the similarity threshold
    matches,           \* the dict fuzzy_match_friends returns, in insertion order
    df,                \* the friend columns of the table, one row per student
    lower_thresh,      \* the value of the "Tier 3 Threshold" slider
    upper_thresh,      \* the value of the "Tier 2 Threshold" slider
    percentage,        \* the SchlPercentage given to categorize_attendance
    tier,              \* the result of categorize_attendance
    gave,              \* the groups balance_groups has taken a student from
    received           \* the groups balance_groups has given a student to

\* the state of the allocator, the balancer and the validator
alloc_vars == <<students, friendship_graph, num_groups, groups, allocated, pos,
                iteration, moves, validation>>

\* the state of the normalizer, the matcher and the graph builder
match_vars == <<name, std_name, friend_names, student_list, threshold, matches, df>>

\* the state of the attendance notebook
tier_vars == <<lower_thresh, upper_thresh, percentage, tier>>

\* what balance_groups has done to each group so far (indices of groups)
history_vars == <<gave, received>>

vars == <<alloc_vars, match_vars, tier_vars, history_vars, pc>>

----------------------------------------------------------------------------
(* Bounds of the model *)

MaxStudents == 3
MaxGroups == 4
MaxFriends == 2
MaxParts == 2
MaxLen == 4
MaxRawNames == 1
MaxRoster == 2
MaxRows == 2
MaxFilled == 1
LargeRoster == 102
MaxPercentage == 100

(* Program constants *)

max_iterations == 50
SixStudents == 6
SixGroups == 6
FourFriends == 4
ThirtyStudents == 30
FriendColumns == 4

\* start and stop of the "Tier 3 Threshold" and "Tier 2 Threshold" sliders
LowerThreshStart == 20
LowerThreshStop == 80
UpperThreshStart == 60
UpperThreshStop == 95

\* thresholds given to fuzzy_match_friends
Thresholds == {0, 50, 65, 85, 100}

\* positions of the threshold slider
SliderThresholds == {50, 85}

None == 0

----------------------------------------------------------------------------
(* Helpers on lists *)

Range(seq) == {seq[i] : i \in 1..Len(seq)}

InList(x, seq) == \E i \in 1..Len(seq) : seq[i] = x

RECURSIVE SumSeq(_)
SumSeq(seq) == IF seq = <<>> THEN 0 ELSE Head(seq) + SumSeq(Tail(seq))

RECURSIVE Flatten(_)
Flatten(grps) == IF grps = <<>> THEN <<>> ELSE Head(grps) \o Flatten(Tail(grps))

MaxOf(seq) == CHOOSE v \in Range(seq) : \A w \in Range(seq) : w <= v

MinOf(seq) == CHOOSE v \in Range(seq) : \A w \in Range(seq) : v <= w

\* list.index(v): the first position holding v
IndexOf(seq, v) == CHOOSE i \in 1..Len(seq) : seq[i] = v /\ \A j \in 1..(i - 1) : seq[j] # v

\* a move that copies the student instead of removing them from the old group
RemoveFirst_Keep(seq, x) == seq

\* list.remove(x): drops the first occurrence of x
RemoveFirst(seq, x) ==
    LET i == IndexOf(seq, x)
    IN SubSeq(seq, 1, i - 1) \o SubSeq(seq, i + 1, Len(seq))

\* the student moved by pop() is left in the group as well
PopLast_Keep(seq) == seq

\* list.pop(): drops the last element
PopLast(seq) == SubSeq(seq, 1, Len(seq) - 1)

RECURSIVE SortedSeq(_)
SortedSeq(S) ==
    IF S = {} THEN <<>>
    ELSE LET m == CHOOSE x \in S : \A y \in S : x <= y
         IN <<m>> \o SortedSeq(S \ {m})

----------------------------------------------------------------------------
(* allocate_groups *)

\* friendship_graph.get(student, [])
Friends(student) ==
    IF student \in DOMAIN friendship_graph THEN friendship_graph[student] ELSE <<>>

total_students == Len(students)

\* a // b for b # 0: the quotient rounded towards minus infinity
FloorDiv(a, b) == IF b > 0 THEN a \div b ELSE (-a) \div (-b)

\* a % b for b # 0: the remainder has the sign of b
PyMod(a, b) == a - b * FloorDiv(a, b)

target_size == FloorDiv(total_students, num_groups)

\* the ceiling is four above the target size
max_size_Loose == target_size + 4

max_size == target_size + (IF PyMod(total_students, num_groups) > 0 THEN 2 ELSE 0)

Sizes(grps) == [i \in 1..Len(grps) |-> Len(grps[i])]

\* the list is left in roster order
SortByFriends_Unsorted(d, maxd) == IF d = 0 THEN students ELSE <<>>

\* student_priority.sort(key=lambda x: x[1]): a stable sort by number of friends
RECURSIVE SortByFriends(_, _)
SortByFriends(d, maxd) ==
    IF d > maxd THEN <<>>
    ELSE SelectSeq(students, LAMBDA s : Len(Friends(s)) = d) \o SortByFriends(d + 1, maxd)

student_priority ==
    IF students = <<>> THEN <<>>
    ELSE SortByFriends(0, MaxOf([i \in 1..Len(students) |-> Len(Friends(students[i]))]))

\* a group that holds a friend is taken even when it is full
FriendGroup_NoCeiling(grps, friends, ceiling) ==
    LET hits == {g \in 1..Len(grps) :
                    \E f \in 1..Len(friends) : InList(friends[f], grps[g])}
    IN IF hits = {} THEN None ELSE CHOOSE g \in hits : \A h \in hits : g <= h

\* the last group below the ceiling that holds one of the friends is taken
FriendGroup_Last(grps, friends, ceiling) ==
    LET hits == {g \in 1..Len(grps) :
                    /\ Len(grps[g]) < ceiling
                    /\ \E f \in 1..Len(friends) : InList(friends[f], grps[g])}
    IN IF hits = {} THEN None ELSE CHOOSE g \in hits : \A h \in hits : g >= h

\* the first group below the ceiling that holds one of the friends, or None
FriendGroup(grps, friends, ceiling) ==
    LET hits == {g \in 1..Len(grps) :
                    /\ Len(grps[g]) < ceiling
                    /\ \E f \in 1..Len(friends) : InList(friends[f], grps[g])}
    IN IF hits = {} THEN None ELSE CHOOSE g \in hits : \A h \in hits : g <= h

\* a group counts as valid only when it is two or more below the ceiling
SmallestValidGroup_Strict(grps, ceiling) ==
    LET valid_groups == {g \in 1..Len(grps) : Len(grps[g]) < ceiling - 1}
    IN IF valid_groups = {} THEN None
       ELSE CHOOSE g \in valid_groups :
                \A h \in valid_groups :
                    \/ Len(grps[g]) < Len(grps[h])
                    \/ Len(grps[g]) = Len(grps[h]) /\ g <= h

\* valid_groups sorted by size (stable): the first smallest group below the ceiling
SmallestValidGroup(grps, ceiling) ==
    LET valid_groups == {g \in 1..Len(grps) : Len(grps[g]) < ceiling}
    IN IF valid_groups = {} THEN None
       ELSE CHOOSE g \in valid_groups :
                \A h \in valid_groups :
                    \/ Len(grps[g]) < Len(grps[h])
                    \/ Len(grps[g]) = Len(grps[h]) /\ g <= h

\* min(range(num_groups), key=lambda i: len(groups[i]))
SmallestGroup(grps) == IndexOf(Sizes(grps), MinOf(Sizes(grps)))

\* the group is overwritten instead of appended to
AppendTo_Overwrite(grps, g, student) == [grps EXCEPT ![g] = <<student>>]

AppendTo(grps, g, student) == [grps EXCEPT ![g] = Append(@, student)]

\* the call of allocate_groups up to the first pass: the sizes are computed
\* (ZeroDivisionError when num_groups is 0) and the empty groups are made
\* (range(num_groups) is empty when num_groups is negative)
Enter ==
    /\ pc = "call"
    /\ IF num_groups = 0
       THEN /\ pc' = "raised"
            /\ UNCHANGED <<groups, pos>>
       ELSE /\ groups' = [i \in 1..num_groups |-> <<>>]
            /\ pos' = 1
            /\ pc' = "first_pass"
    /\ allocated' = {}
    /\ UNCHANGED <<students, friendship_graph, num_groups, iteration, moves, validation>>
    /\ UNCHANGED match_vars
    /\ UNCHANGED tier_vars
    /\ UNCHANGED history_vars

\* one iteration of the first pass; student_priority has one entry for each
\* entry of students
PlaceStudent ==
    /\ pc = "first_pass"
    /\ pos <= total_students
    /\ \E student \in {student_priority[pos]} :
          LET friends == Friends(student)
              best_group == IF friends # <<>>
                            THEN FriendGroup(groups, friends, max_size)
                            ELSE None
              smallest_group_idx == SmallestValidGroup(groups, max_size)
          IN IF student \in allocated
             THEN UNCHANGED <<groups, allocated>>
             ELSE IF best_group # None
             THEN /\ groups' = AppendTo(groups, best_group, student)
                  /\ allocated' = allocated \cup {student}
             ELSE IF smallest_group_idx # None
             THEN /\ groups' = AppendTo(groups, smallest_group_idx, student)
                  /\ allocated' = allocated \cup {student}
             ELSE UNCHANGED <<groups, allocated>>
    /\ pos' = pos + 1
    /\ UNCHANGED <<students, friendship_graph, num_groups, iteration, moves,
                   validation, pc>>
    /\ UNCHANGED match_vars
    /\ UNCHANGED tier_vars
    /\ UNCHANGED history_vars

\* the second pass over students[i..]: any student left goes to the smallest group
RECURSIVE SecondPassFrom(_, _, _)
SecondPassFrom(i, grps, alloc) ==
    LET left == {j \in i..Len(students) : students[j] \notin alloc}
    IN IF left = {} THEN [groups |-> grps, allocated |-> alloc]
       ELSE LET j == CHOOSE k \in left : \A l \in left : k <= l
            IN SecondPassFrom(j + 1, AppendTo(grps, SmallestGroup(grps), students[j]),
                              alloc \cup {students[j]})

\* the whole second pass, then the call of balance_groups
SecondPass ==
    /\ pc = "first_pass"
    /\ pos > total_students
    /\ groups # <<>> \/ Range(students) \subseteq allocated
    /\ LET r == SecondPassFrom(1, groups, allocated)
       IN /\ groups' = r.groups
          /\ allocated' = r.allocated
    /\ iteration' = 0
    /\ moves' = 0
    /\ pc' = "balance"
    /\ UNCHANGED <<students, friendship_graph, num_groups, pos, validation>>
    /\ UNCHANGED match_vars
    /\ UNCHANGED tier_vars
    /\ UNCHANGED history_vars

\* the second pass reaches a student when there is no group: min() of an empty
\* range raises ValueError
SecondPassRaise ==
    /\ pc = "first_pass"
    /\ pos > total_students
    /\ groups = <<>>
    /\ ~(Range(students) \subseteq allocated)
    /\ pc' = "raised"
    /\ UNCHANGED alloc_vars
    /\ UNCHANGED match_vars
    /\ UNCHANGED tier_vars
    /\ UNCHANGED history_vars

----------------------------------------------------------------------------
(* balance_groups *)

\* the loop never breaks on balanced groups
Balanced_Never(grps) == FALSE

\* only groups of equal size count as balanced
Balanced_Strict(grps) == MaxOf(Sizes(grps)) - MinOf(Sizes(grps)) <= 0

\* the balance test off by one
Balanced_Loose(grps) == MaxOf(Sizes(grps)) - MinOf(Sizes(grps)) <= 2

Balanced(grps) == MaxOf(Sizes(grps)) - MinOf(Sizes(grps)) <= 1

largest_idx == IndexOf(Sizes(groups), MaxOf(Sizes(groups)))

smallest_idx == IndexOf(Sizes(groups), MinOf(Sizes(groups)))

has_friends_in_current(student) ==
    \E f \in 1..Len(Friends(student)) : InList(Friends(student)[f], groups[largest_idx])

would_have_friends_in_new(student) ==
    \E f \in 1..Len(Friends(student)) : InList(Friends(student)[f], groups[smallest_idx])

\* the first student of the largest group is moved whatever their friends
MoveRule_Always(student) == TRUE

\* a friend in the smallest group does not count
MoveRule_NoGain(student) == ~has_friends_in_current(student)

\* the move rule of the scan over the largest group
MoveRule(student) ==
    ~has_friends_in_current(student) \/ would_have_friends_in_new(student)

\* position in the largest group of the first student the rule picks, or None
Candidate ==
    LET from == groups[largest_idx]
        good == {k \in 1..Len(from) : MoveRule(from[k])}
    IN IF good = {} THEN None ELSE CHOOSE k \in good : \A l \in good : k <= l

\* the groups after one move from the largest to the smallest group
MoveOne ==
    LET from == groups[largest_idx]
    IN IF Candidate # None
       THEN [groups EXCEPT ![largest_idx] = RemoveFirst(from, from[Candidate]),
                           ![smallest_idx] = Append(groups[smallest_idx], from[Candidate])]
       ELSE IF Len(from) > 0
       THEN [groups EXCEPT ![largest_idx] = PopLast(from),
                           ![smallest_idx] = Append(groups[smallest_idx], from[Len(from)])]
       ELSE groups

\* one loop iteration that moves a student
BalanceMove ==
    /\ pc = "balance"
    /\ iteration < max_iterations
    /\ groups # <<>>
    /\ ~Balanced(groups)
    /\ iteration' = iteration + 1
    /\ groups' = MoveOne
    /\ moves' = IF groups' # groups THEN moves + 1 ELSE moves
    /\ gave' = IF groups' # groups THEN gave \cup {largest_idx} ELSE gave
    /\ received' = IF groups' # groups THEN received \cup {smallest_idx} ELSE received
    /\ UNCHANGED <<students, friendship_graph, num_groups, allocated, pos,
                   validation, pc>>
    /\ UNCHANGED match_vars
    /\ UNCHANGED tier_vars

\* the loop iteration that finds the groups balanced and breaks
BalanceBreak ==
    /\ pc = "balance"
    /\ iteration < max_iterations
    /\ groups # <<>>
    /\ Balanced(groups)
    /\ iteration' = iteration + 1
    /\ pc' = "returned"
    /\ UNCHANGED <<students, friendship_graph, num_groups, groups, allocated,
                   pos, moves, validation>>
    /\ UNCHANGED match_vars
    /\ UNCHANGED tier_vars
    /\ UNCHANGED history_vars

\* the first iteration on an empty list of groups: max() of an empty list
\* raises ValueError
BalanceRaise ==
    /\ pc = "balance"
    /\ iteration < max_iterations
    /\ groups = <<>>
    /\ iteration' = iteration + 1
    /\ pc' = "raised"
    /\ UNCHANGED <<students, friendship_graph, num_groups, groups, allocated,
                   pos, moves, validation>>
    /\ UNCHANGED match_vars
    /\ UNCHANGED tier_vars
    /\ UNCHANGED history_vars

\* the loop condition fails: max_iterations iterations were run
BalanceExhausted ==
    /\ pc = "balance"
    /\ iteration >= max_iterations
    /\ pc' = "returned"
    /\ UNCHANGED <<students, friendship_graph, num_groups, groups, allocated,
                   pos, iteration, moves, validation>>
    /\ UNCHANGED match_vars
    /\ UNCHANGED tier_vars
    /\ UNCHANGED history_vars

----------------------------------------------------------------------------
(* validate_groups *)

\* every listed friend is counted, in the group or not
num_friends_in_group_Anywhere(student, group) == Len(Friends(student))

\* friends_in_group of one student of one group
num_friends_in_group(student, group) ==
    Cardinality({f \in 1..Len(Friends(student)) : InList(Friends(student)[f], group)})

\* [len(friends_in_group) for student in group], one group
FriendCounts(group) == [k \in 1..Len(group) |-> num_friends_in_group(group[k], group)]

\* the per-student counts of all groups, in the order the nested loops visit them
RECURSIVE AllFriendCounts(_)
AllFriendCounts(grps) ==
    IF grps = <<>> THEN <<>>
    ELSE FriendCounts(Head(grps)) \o AllFriendCounts(Tail(grps))

\* the count is not capped
Min2_NoCap(a, b) == a

Min2(a, b) == IF a <= b THEN a ELSE b

\* the rate is cut off after two decimals instead of rounded
Round2_Truncate(num, den) == (num * 100) \div den

\* round(num / den, 2) in hundredths; an exact tie goes to the even neighbour
Round2(num, den) ==
    LET q == (num * 100) \div den
        r == (num * 100) % den
    IN IF 2 * r < den THEN q
       ELSE IF 2 * r > den THEN q + 1
       ELSE IF q % 2 = 0 THEN q ELSE q + 1

\* the report of validate_groups; the two rates are held in hundredths
validate_groups(grps) ==
    LET group_sizes == Sizes(grps)
        total == SumSeq(group_sizes)
        members == Flatten(grps)
        counts == AllFriendCounts(grps)
        friend_count_distribution ==
            [c \in 0..4 |-> Cardinality({k \in 1..Len(counts) : Min2(counts[k], 4) = c})]
        without == {k \in 1..Len(counts) : counts[k] = 0}
        students_without_friends ==
            [j \in 1..Cardinality(without) |->
                members[CHOOSE k \in without : Cardinality({l \in without : l < k}) = j - 1]]
        total_friends_in_groups == SumSeq(counts)
    IN [group_sizes |-> group_sizes,
        total_students |-> total,
        students_with_friends |-> friend_count_distribution,
        students_with_0_friends |-> friend_count_distribution[0],
        students_without_friends_list |-> students_without_friends,
        satisfaction_rate |->
            IF total > 0
            THEN Round2((total - friend_count_distribution[0]) * 100, total)
            ELSE 0,
        average_friends_per_student |->
            IF total > 0 THEN Round2(total_friends_in_groups, total) ELSE 0,
        min_group_size |-> IF grps # <<>> THEN MinOf(group_sizes) ELSE None,
        max_group_size |-> IF grps # <<>> THEN MaxOf(group_sizes) ELSE None,
        group_size_variance |->
            IF grps # <<>> THEN MaxOf(group_sizes) - MinOf(group_sizes) ELSE None]

\* the report is made by taking the students out of the groups
Validate_Consuming ==
    /\ pc = "returned"
    /\ pc' = "validated"
    /\ validation' = validate_groups(groups)
    /\ groups' = [g \in 1..Len(groups) |-> <<>>]
    /\ UNCHANGED <<students, friendship_graph, num_groups, allocated,
                   pos, iteration, moves>>
    /\ UNCHANGED match_vars
    /\ UNCHANGED tier_vars
    /\ UNCHANGED history_vars

\* validation = validate_groups(groups, friendship_graph)
Validate ==
    /\ pc = "returned"
    /\ pc' = "validated"
    /\ validation' = validate_groups(groups)
    /\ UNCHANGED <<students, friendship_graph, num_groups, groups, allocated,
                   pos, iteration, moves>>
    /\ UNCHANGED match_vars
    /\ UNCHANGED tier_vars
    /\ UNCHANGED history_vars

----------------------------------------------------------------------------
(* standardize_name *)

(* A text is a sequence of one-character strings.  NoneName stands for *)
(* Python's None where a name or a match is expected.                    *)

NoneName == <<"None">>

Whitespace == {" ", "\t", "\n"}

UpperCase ==
    <<"A", "B", "C", "D", "E", "F", "G", "H", "I", "J", "K", "L", "M",
      "N", "O", "P", "Q", "R", "S", "T", "U", "V", "W", "X", "Y", "Z">>

LowerCase ==
    <<"a", "b", "c", "d", "e", "f", "g", "h", "i", "j", "k", "l", "m",
      "n", "o", "p", "q", "r", "s", "t", "u", "v", "w", "x", "y", "z">>

\* str.lower() of one character
LowerChar(c) ==
    IF \E i \in 1..Len(UpperCase) : UpperCase[i] = c
    THEN LowerCase[CHOOSE i \in 1..Len(UpperCase) : UpperCase[i] = c]
    ELSE c

\* str.lower()
Lower(text) == [i \in 1..Len(text) |-> LowerChar(text[i])]

RECURSIVE LStrip(_)
LStrip(text) ==
    IF text # <<>> /\ Head(text) \in Whitespace THEN LStrip(Tail(text)) ELSE text

RECURSIVE RStrip(_)
RStrip(text) ==
    IF text # <<>> /\ text[Len(text)] \in Whitespace
    THEN RStrip(SubSeq(text, 1, Len(text) - 1))
    ELSE text

\* str.strip()
Strip(text) == RStrip(LStrip(text))

\* only runs of blanks are collapsed, a tab or a newline is kept
RECURSIVE Collapse_BlanksOnly(_)
Collapse_BlanksOnly(text) ==
    IF text = <<>> THEN <<>>
    ELSE IF Head(text) = " "
    THEN IF Len(text) > 1 /\ text[2] = " "
         THEN Collapse_BlanksOnly(Tail(text))
         ELSE <<" ">> \o Collapse_BlanksOnly(Tail(text))
    ELSE <<Head(text)>> \o Collapse_BlanksOnly(Tail(text))

\* re.sub(r"\s+", " ", text)
RECURSIVE Collapse(_)
Collapse(text) ==
    IF text = <<>> THEN <<>>
    ELSE IF Head(text) \in Whitespace
    THEN <<" ">> \o Collapse(LStrip(Tail(text)))
    ELSE <<Head(text)>> \o Collapse(Tail(text))

standardize_name(raw) ==
    IF raw = NoneName \/ Strip(raw) = <<>>
    THEN <<>>
    ELSE Strip(Collapse(Lower(raw)))

\* standardize_name(name)
Standardize ==
    /\ pc = "name"
    /\ std_name' = standardize_name(name)
    /\ pc' = "standardized"
    /\ UNCHANGED <<name, friend_names, student_list, threshold, matches, df>>
    /\ UNCHANGED alloc_vars
    /\ UNCHANGED tier_vars
    /\ UNCHANGED history_vars

\* standardize_name applied to its own result
Restandardize ==
    /\ pc = "standardized"
    /\ name' = std_name
    /\ std_name' = standardize_name(std_name)
    /\ pc' = "restandardized"
    /\ UNCHANGED <<friend_names, student_list, threshold, matches, df>>
    /\ UNCHANGED alloc_vars
    /\ UNCHANGED tier_vars
    /\ UNCHANGED history_vars

----------------------------------------------------------------------------
(* fuzzy_match_friends *)

Max2(a, b) == IF a >= b THEN a ELSE b

\* one more row of the longest-common-subsequence table: the row of character c
\* of the query against the text b, given the row before it.  Cell j is the
\* largest of prev[j] and of prev[k - 1] + 1 over the k <= j with b[k] = c.
LcsRow(prev, c, b) ==
    SubSeq([j \in 1..Len(b) |->
               LET cands == {prev[j]} \cup
                            {(IF k = 1 THEN 0 ELSE prev[k - 1]) + 1 :
                                k \in {l \in 1..j : b[l] = c}}
               IN CHOOSE m \in cands : \A x \in cands : x <= m],
           1, Len(b))

RECURSIVE LcsFrom(_, _, _, _)
LcsFrom(a, b, i, prev) ==
    IF i > Len(a) THEN (IF b = <<>> THEN 0 ELSE prev[Len(b)])
    ELSE LcsFrom(a, b, i + 1, LcsRow(prev, a[i], b))

\* the length of the longest common subsequence of two texts
Lcs(a, b) == LcsFrom(a, b, 1, [j \in 1..Len(b) |-> 0])

\* fuzz.ratio(a, b), the normalized Indel similarity 100 * 2 * lcs / (len a + len b),
\* kept as the exact fraction num / den (100 for two empty texts)
Ratio(a, b) ==
    IF Len(a) + Len(b) = 0 THEN [num |-> 100, den |-> 1]
    ELSE [num |-> 200 * Lcs(a, b), den |-> Len(a) + Len(b)]

\* score >= cutoff
AtLeast(score, cutoff) == score.num >= cutoff * score.den

\* score1 > score2
Higher(score1, score2) == score1.num * score2.den > score2.num * score1.den

\* the scores of the query against every choice, in the order of the choices
Scores(query, choices) ==
    SubSeq([i \in 1..Len(choices) |-> Ratio(query, choices[i])], 1, Len(choices))

\* the first choice that reaches the cutoff is taken, not the best one
extractOne_FirstAccepted(query, choices, score_cutoff) ==
    LET scores == Scores(query, choices)
        accepted == {i \in 1..Len(choices) : AtLeast(scores[i], score_cutoff)}
    IN IF accepted = {} THEN None ELSE CHOOSE i \in accepted : \A j \in accepted : i <= j

\* process.extractOne(query, choices, scorer=fuzz.ratio, score_cutoff=...): the
\* index of the first choice of maximal score among those that reach the cutoff,
\* or None
extractOne(query, choices, score_cutoff) ==
    LET scores == Scores(query, choices)
        accepted == {i \in 1..Len(choices) : AtLeast(scores[i], score_cutoff)}
    IN IF accepted = {} THEN None
       ELSE CHOOSE i \in accepted :
                \A j \in accepted :
                    /\ ~Higher(scores[j], scores[i])
                    /\ j < i => Higher(scores[i], scores[j])

\* the standardized roster name is returned instead of the original one
MatchedName_Standardized(roster, index) == standardize_name(roster[index])

\* student_pairs[index][0]: the original roster name of a match
MatchedName(roster, index) == roster[index]

\* standardized_students
StandardizedStudents(roster) == [i \in 1..Len(roster) |-> standardize_name(roster[i])]

\* the value stored for one friend name
MatchValue(friend_name, roster, cutoff) ==
    LET index == extractOne(standardize_name(friend_name), StandardizedStudents(roster), cutoff)
    IN IF index # None THEN MatchedName(roster, index) ELSE NoneName

\* the friend names that get an entry: not blank, not standardized to ""
Matchable(friend_name) ==
    /\ friend_name # <<>>
    /\ Strip(friend_name) # <<>>
    /\ standardize_name(friend_name) # <<>>

\* the dict of fuzzy_match_friends as the sequence of its items, in insertion
\* order; a friend name given twice keeps its first position
RECURSIVE MatchItems(_, _, _, _)
MatchItems(names, roster, cutoff, items) ==
    IF names = <<>> THEN items
    ELSE IF Matchable(Head(names)) /\ \A i \in 1..Len(items) : items[i].key # Head(names)
    THEN MatchItems(Tail(names), roster, cutoff,
                    Append(items, [key |-> Head(names),
                                   value |-> MatchValue(Head(names), roster, cutoff)]))
    ELSE MatchItems(Tail(names), roster, cutoff, items)

fuzzy_match_friends(names, roster, cutoff) == MatchItems(names, roster, cutoff, <<>>)

\* fuzzy_match_friends(friend_names, student_list, threshold)
FuzzyMatch ==
    /\ pc = "match"
    /\ matches' = fuzzy_match_friends(friend_names, student_list, threshold)
    /\ pc' = "matched"
    /\ UNCHANGED <<name, std_name, friend_names, student_list, threshold, df>>
    /\ UNCHANGED alloc_vars
    /\ UNCHANGED tier_vars
    /\ UNCHANGED history_vars

\* the threshold slider is moved and the same names are matched again
ChangeThreshold ==
    /\ pc = "matched"
    /\ \E t \in Thresholds \ {threshold} :
          /\ threshold' = t
          /\ matches' = fuzzy_match_friends(friend_names, student_list, t)
    /\ UNCHANGED <<name, std_name, friend_names, student_list, df, pc>>
    /\ UNCHANGED alloc_vars
    /\ UNCHANGED tier_vars
    /\ UNCHANGED history_vars

----------------------------------------------------------------------------
(* build_friendship_graph *)

\* the friend names of one row: the non-blank cells, stripped
RECURSIVE RowFriendNames(_)
RowFriendNames(cells) ==
    IF cells = <<>> THEN <<>>
    ELSE IF Head(cells) # <<>> /\ Strip(Head(cells)) # <<>>
    THEN <<Strip(Head(cells))>> \o RowFriendNames(Tail(cells))
    ELSE RowFriendNames(Tail(cells))

\* the test for the student's own name is left out
KeepMatch_NoSelfTest(matched_student, student_name) ==
    matched_student # NoneName /\ matched_student # <<>>

\* if matched_student and matched_student != student_name
KeepMatch(matched_student, student_name) ==
    /\ matched_student # NoneName
    /\ matched_student # <<>>
    /\ matched_student # student_name

\* the matches of one row that are added to the student's list
RECURSIVE AddedFriends(_, _)
AddedFriends(items, student_name) ==
    IF items = <<>> THEN <<>>
    ELSE IF KeepMatch(Head(items).value, student_name)
    THEN <<Head(items).value>> \o AddedFriends(Tail(items), student_name)
    ELSE AddedFriends(Tail(items), student_name)

\* one iteration of the loop over the rows
BuildRow ==
    /\ pc = "build"
    /\ pos <= Len(student_list)
    /\ LET student_name == student_list[pos]
           row_names == RowFriendNames(df[pos])
           row_matches == fuzzy_match_friends(row_names, student_list, threshold)
       IN /\ friend_names' = row_names
          /\ matches' = IF row_names = <<>> THEN matches ELSE row_matches
          /\ friendship_graph' =
                IF row_names = <<>> THEN friendship_graph
                ELSE [friendship_graph EXCEPT
                         ![student_name] = @ \o AddedFriends(row_matches, student_name)]
    /\ pos' = pos + 1
    /\ UNCHANGED <<students, num_groups, groups, allocated, iteration, moves, validation>>
    /\ UNCHANGED <<name, std_name, student_list, threshold, df, pc>>
    /\ UNCHANGED tier_vars
    /\ UNCHANGED history_vars

\* return graph
BuildReturn ==
    /\ pc = "build"
    /\ pos > Len(student_list)
    /\ pc' = "built"
    /\ UNCHANGED alloc_vars
    /\ UNCHANGED match_vars
    /\ UNCHANGED tier_vars
    /\ UNCHANGED history_vars

----------------------------------------------------------------------------
(* categorize_attendance (src/apps/attendance_data.py) *)

\* thresholds is the pair (lower_thresh.value, upper_thresh.value); Python's
\* thresholds[0] and thresholds[1] are thresholds[1] and thresholds[2] here
categorize_attendance(p, thresholds) ==
    IF p < thresholds[1] THEN "Tier 3"
    ELSE IF thresholds[1] <= p /\ p < thresholds[2] THEN "Tier 2"
    ELSE "Tier 1"

\* df["SchlPercentage"].apply(categorize_attendance, args=(thresh_vals,)), one row
Categorize ==
    /\ pc = "tier"
    /\ tier' = categorize_attendance(percentage, <<lower_thresh, upper_thresh>>)
    /\ pc' = "categorized"
    /\ UNCHANGED <<lower_thresh, upper_thresh, percentage>>
    /\ UNCHANGED alloc_vars
    /\ UNCHANGED match_vars
    /\ UNCHANGED history_vars

----------------------------------------------------------------------------
(* Inputs *)

\* the normalizer, the matcher and the graph builder are not running
MatchIdle ==
    /\ name = <<>>
    /\ std_name = <<>>
    /\ friend_names = <<>>
    /\ student_list = <<>>
    /\ threshold = 0
    /\ matches = <<>>
    /\ df = <<>>

\* the attendance notebook is not running
TierIdle ==
    /\ lower_thresh = 0
    /\ upper_thresh = 0
    /\ percentage = 0
    /\ tier = ""

\* balance_groups has moved nobody yet
NoHistory ==
    /\ gave = {}
    /\ received = {}

Roster(n) == [i \in 1..n |-> i]

\* the friend lists of student s in a roster of n: at most MaxFriends distinct
\* other students.  The order inside a list is kept ascending: the allocator, the
\* balancer and the validator only test membership and take the length.
FriendLists(n, s) ==
    {SortedSeq(S) : S \in {T \in SUBSET ((1..n) \ {s}) : Cardinality(T) <= MaxFriends}}

\* the friendship graphs over the roster <<1..n>>
Graphs(n) == {graph \in [1..n -> UNION {FriendLists(n, s) : s \in 1..n}] :
                 \A s \in 1..n : graph[s] \in FriendLists(n, s)}

InitAllocate(studs, graph, g) ==
    /\ students = studs
    /\ friendship_graph = graph
    /\ num_groups = g
    /\ groups = [i \in 1..g |-> <<>>]
    /\ allocated = {}
    /\ pos = 1
    /\ iteration = 0
    /\ moves = 0
    /\ validation = <<>>
    /\ pc = "first_pass"
    /\ MatchIdle
    /\ TierIdle
    /\ NoHistory

\* every student lists the student before them on the roster
ChainGraph(n) == [s \in 1..n |-> IF s = 1 THEN <<>> ELSE <<s - 1>>]

\* nobody lists a friend
NoFriends(n) == [s \in 1..n |-> <<>>]

\* every student lists FourFriends of the other SixStudents - 1 students
SixGraphs ==
    {[s \in 1..SixStudents |-> SortedSeq((1..SixStudents) \ {s, omitted[s]})] :
        omitted \in {o \in [1..SixStudents -> 1..SixStudents] :
                        /\ \A s \in 1..SixStudents : o[s] # s
                        /\ \A s \in 1..SixStudents :
                              Cardinality((1..SixStudents) \ {s, o[s]}) = FourFriends}}

\* every student lists every other student of the roster
FullGraph(n) == [s \in 1..n |-> SortedSeq((1..n) \ {s})]

\* the graph build_friendship_graph makes of the test table sample_df at the
\* default threshold 85, the six students numbered in roster order: 'charlie'
\* (Bob's second friend) and 'Alice' (Charlie's second friend) stay unmatched
SampleGraph == <<<<2, 3>>, <<1, 4>>, <<2>>, <<5, 6>>, <<4, 1, 2>>, <<3, 2>>>>

Init ==
    \/ \E n \in 0..MaxStudents, g \in 1..MaxGroups :
          \E graph \in Graphs(n) : InitAllocate(Roster(n), graph, g)
    \/ InitAllocate(Roster(LargeRoster), ChainGraph(LargeRoster), LargeRoster + 1)
    \/ InitAllocate(Roster(ThirtyStudents), NoFriends(ThirtyStudents), SixGroups)
    \/ \E graph \in SixGraphs : InitAllocate(Roster(SixStudents), graph, SixGroups)

Next ==
    \/ PlaceStudent
    \/ SecondPass
    \/ BalanceMove
    \/ BalanceBreak
    \/ BalanceExhausted
    \/ Validate

Spec == Init /\ [][Next]_vars

\* the largest number of groups for which 2 * (num_groups - 1) moves fit into
\* max_iterations iterations
CapGroups == max_iterations \div 2 + 1

\* the smallest roster that takes max_iterations - 1 moves with CapGroups groups:
\* a chain of friends fills all groups but one up to the ceiling and leaves the
\* last group empty
TightRoster == (max_iterations - 1) * CapGroups + 1

\* allocate_groups on the bounded rosters and on the rosters at the iteration cap
InitCap ==
    \/ \E n \in 0..MaxStudents, g \in 1..MaxGroups :
          \E graph \in Graphs(n) : InitAllocate(Roster(n), graph, g)
    \/ InitAllocate(Roster(LargeRoster), ChainGraph(LargeRoster), LargeRoster + 1)
    \/ InitAllocate(Roster(TightRoster), ChainGraph(TightRoster), CapGroups)

\* allocate_groups up to its return
NextAllocate ==
    \/ PlaceStudent
    \/ SecondPass
    \/ BalanceMove
    \/ BalanceBreak
    \/ BalanceExhausted

CapSpec == InitCap /\ [][NextAllocate]_vars

\* the roster <<1..n>> cut into groups of the given sizes
RECURSIVE CutInto(_, _)
CutInto(seq, sizes) ==
    IF sizes = <<>> THEN <<>>
    ELSE <<SubSeq(seq, 1, Head(sizes))>>
             \o CutInto(SubSeq(seq, Head(sizes) + 1, Len(seq)), Tail(sizes))

\* the ways to cut a roster of n into g groups, empty groups included
Cuts(n, g) == {CutInto(Roster(n), sizes) : sizes \in {sz \in [1..g -> 0..n] : SumSeq(sz) = n}}

\* balance_groups called on a partition of its own
InitBalanceOn(grps, graph) ==
    /\ students = Flatten(grps)
    /\ friendship_graph = graph
    /\ num_groups = Len(grps)
    /\ groups = grps
    /\ allocated = Range(Flatten(grps))
    /\ pos = Len(Flatten(grps)) + 1
    /\ iteration = 0
    /\ moves = 0
    /\ validation = <<>>
    /\ pc = "balance"
    /\ MatchIdle
    /\ TierIdle
    /\ NoHistory

InitBalance ==
    \/ \E n \in 0..MaxStudents, g \in 1..MaxParts :
          \E grps \in Cuts(n, g), graph \in Graphs(n) : InitBalanceOn(grps, graph)
    \/ \E graph \in {NoFriends(LargeRoster), ChainGraph(LargeRoster)} :
          InitBalanceOn(<<Roster(LargeRoster), <<>> >>, graph)
    \/ \E g \in 1..(MaxParts + 1) :
          \E grps \in Cuts(SixStudents, g) : InitBalanceOn(grps, SampleGraph)

NextBalance ==
    \/ BalanceMove
    \/ BalanceBreak
    \/ BalanceExhausted
    \/ Validate

BalanceSpec == InitBalance /\ [][NextBalance]_vars

\* the rosters of n students over n names: a name can be on the roster twice
RostersWithDuplicates(n) == [1..n -> 1..n]

\* allocate_groups called with any arguments, precondition violations included
InitCallOn(studs, graph, g) ==
    /\ students = studs
    /\ friendship_graph = graph
    /\ num_groups = g
    /\ groups = <<>>
    /\ allocated = {}
    /\ pos = 0
    /\ iteration = 0
    /\ moves = 0
    /\ validation = <<>>
    /\ pc = "call"
    /\ MatchIdle
    /\ TierIdle
    /\ NoHistory

InitCall ==
    \/ \E n \in 0..MaxStudents, g \in (-MaxGroups)..MaxGroups :
          \E studs \in RostersWithDuplicates(n), graph \in {NoFriends(n), ChainGraph(n)} :
             InitCallOn(studs, graph, g)
    \/ InitCallOn(Roster(LargeRoster), ChainGraph(LargeRoster), LargeRoster + 1)

NextCall ==
    \/ Enter
    \/ PlaceStudent
    \/ SecondPass
    \/ SecondPassRaise
    \/ BalanceMove
    \/ BalanceBreak
    \/ BalanceRaise
    \/ BalanceExhausted
    \/ Validate

CallSpec == InitCall /\ [][NextCall]_vars

\* validate_groups called on a partition of its own
InitValidateOn(grps, graph) ==
    /\ students = Flatten(grps)
    /\ friendship_graph = graph
    /\ num_groups = Len(grps)
    /\ groups = grps
    /\ allocated = Range(Flatten(grps))
    /\ pos = Len(Flatten(grps)) + 1
    /\ iteration = 0
    /\ moves = 0
    /\ validation = <<>>
    /\ pc = "returned"
    /\ MatchIdle
    /\ TierIdle
    /\ NoHistory

InitValidate ==
    \/ \E n \in 0..MaxStudents, g \in 0..MaxParts :
          \E grps \in Cuts(n, g), graph \in Graphs(n) : InitValidateOn(grps, graph)
    \/ \E g \in 1..MaxParts :
          \E grps \in Cuts(SixStudents, g),
             graph \in {FullGraph(SixStudents), SampleGraph, NoFriends(SixStudents)} :
                InitValidateOn(grps, graph)

NextValidate == Validate

ValidateSpec == InitValidate /\ [][NextValidate]_vars

\* the allocator, the balancer and the validator are not running
AllocIdle ==
    /\ students = <<>>
    /\ friendship_graph = <<>>
    /\ num_groups = 0
    /\ groups = <<>>
    /\ allocated = {}
    /\ pos = 0
    /\ iteration = 0
    /\ moves = 0
    /\ validation = <<>>

\* the two sliders are set independently of each other
InitTier ==
    /\ lower_thresh \in LowerThreshStart..LowerThreshStop
    /\ upper_thresh \in UpperThreshStart..UpperThreshStop
    /\ percentage \in 0..MaxPercentage
    /\ tier = ""
    /\ pc = "tier"
    /\ AllocIdle
    /\ MatchIdle
    /\ NoHistory

NextTier == Categorize

TierSpec == InitTier /\ [][NextTier]_vars

\* the characters of the names given to standardize_name
NormChars == {"a", "B", " ", "\t", "-", "'"}

\* the texts of at most n characters
Texts(chars, n) == UNION {[1..k -> chars] : k \in 0..n}

InitNorm ==
    /\ name \in Texts(NormChars, MaxLen) \cup {NoneName}
    /\ std_name = <<>>
    /\ friend_names = <<>>
    /\ student_list = <<>>
    /\ threshold = 0
    /\ matches = <<>>
    /\ df = <<>>
    /\ pc = "name"
    /\ AllocIdle
    /\ TierIdle
    /\ NoHistory

NextNorm ==
    \/ Standardize
    \/ Restandardize

NormSpec == InitNorm /\ [][NextNorm]_vars

\* the names students can have
StudentPool ==
    <<<<"A", "l", "i", "c", "e", " ", "S", "m", "i", "t", "h">>,
      <<"B", "o", "b", " ", "J", "o", "n", "e", "s">>,
      <<"B", "o">>,
      <<"B", "O", "B">>>>

\* the friend names students can enter
RawPool ==
    <<<<>>,
      <<" ", " ">>,
      <<"b", "o", "b">>,
      <<"a", "l", "i", "c", "e", " ", "s", "m", "i", "t", "h">>,
      <<" ", "B", "o", "b", " ", " ", "J", "o", "n", "e", "s", " ">>,
      <<"x", "y", "z">>>>

\* the friend cells of the table
CellPool ==
    <<<<" ", " ">>,
      <<"b", "o", "b">>,
      <<" ", "A", "l", "i", "c", "e", " ", "S", "m", "i", "t", "h">>>>

\* the sequences of at most n elements of a pool
SeqsUpTo(pool, n) == UNION {[1..k -> Range(pool)] : k \in 0..n}

InitMatch ==
    /\ friend_names \in SeqsUpTo(RawPool, MaxRawNames)
    /\ student_list \in SeqsUpTo(StudentPool, MaxRoster)
    /\ threshold \in Thresholds
    /\ matches = <<>>
    /\ name = <<>>
    /\ std_name = <<>>
    /\ df = <<>>
    /\ pc = "match"
    /\ AllocIdle
    /\ TierIdle
    /\ NoHistory

NextMatch ==
    \/ FuzzyMatch
    \/ ChangeThreshold

MatchSpec == InitMatch /\ [][NextMatch]_vars

\* the rosters of uniquely named students, in the order of the pool
Rosters(n) ==
    {SelectSeq(StudentPool, LAMBDA s : s \in chosen) :
        chosen \in {c \in SUBSET Range(StudentPool) : Cardinality(c) <= n}}

\* a row of FriendColumns cells: the filled cells first, the rest left empty
FriendRows ==
    {[c \in 1..FriendColumns |-> IF c <= Len(filled) THEN filled[c] ELSE <<>>] :
        filled \in SeqsUpTo(CellPool, MaxFilled)}

InitGraph ==
    /\ student_list \in Rosters(MaxRows)
    /\ df \in [1..Len(student_list) -> FriendRows]
    /\ threshold \in SliderThresholds
    /\ friendship_graph = [student \in Range(student_list) |-> <<>>]
    /\ pos = 1
    /\ friend_names = <<>>
    /\ matches = <<>>
    /\ name = <<>>
    /\ std_name = <<>>
    /\ students = <<>>
    /\ num_groups = 0
    /\ groups = <<>>
    /\ allocated = {}
    /\ iteration = 0
    /\ moves = 0
    /\ validation = <<>>
    /\ pc = "build"
    /\ TierIdle
    /\ NoHistory

NextGraph ==
    \/ BuildRow
    \/ BuildReturn

GraphSpec == InitGraph /\ [][NextGraph]_vars

----------------------------------------------------------------------------
(* Properties of allocate_groups *)

\* allocate_groups has returned its partition
Returned == pc \in {"returned", "validated"}

UniqueRoster == \A i, j \in 1..Len(students) : students[i] = students[j] => i = j

\* max(group size) - min(group size)
Spread(grps) == MaxOf(Sizes(grps)) - MinOf(Sizes(grps))

NoDuplicates(seq) == \A i, j \in 1..Len(seq) : seq[i] = seq[j] => i = j

\* C1: allocate_groups returns exactly num_groups groups, no student is in two
\* groups or twice in one, and the groups together hold exactly the roster.
C1_Partition ==
    (Returned /\ UniqueRoster /\ num_groups >= 1) =>
        /\ Len(groups) = num_groups
        /\ NoDuplicates(Flatten(groups))
        /\ Range(Flatten(groups)) = Range(students)

\* a returned partition of a full small roster that the balancer had to repair
C1_Witness ==
    /\ Returned
    /\ Len(students) = MaxStudents
    /\ num_groups = 2
    /\ moves > 0

\* C2: the returned partition has max(group size) - min(group size) <= 1, every
\* group holding floor(total/num_groups) or floor(total/num_groups) + 1 students.
C2_BalancedOnReturn ==
    (Returned /\ UniqueRoster /\ num_groups >= 1) =>
        /\ Spread(groups) <= 1
        /\ \A g \in 1..Len(groups) :
              Len(groups[g]) - (total_students \div num_groups) \in {0, 1}

\* C8: when num_groups divides the roster size every returned group has exactly
\* total/num_groups students.
C8_ExactSizes ==
    (Returned /\ UniqueRoster /\ num_groups >= 1 /\ total_students % num_groups = 0) =>
        \A g \in 1..Len(groups) : Len(groups[g]) = total_students \div num_groups

\* thirty students without friends in six groups of five
C8_Witness ==
    /\ Returned
    /\ total_students = ThirtyStudents
    /\ num_groups = SixGroups
    /\ Sizes(groups) = [g \in 1..SixGroups |-> 5]

\* C9: with more groups than students, exactly roster-size groups hold one student
\* each and every other group is empty.
C9_SinglesWhenMoreGroups ==
    (Returned /\ UniqueRoster /\ num_groups > total_students) =>
        /\ Len(groups) = num_groups
        /\ Cardinality({g \in 1..Len(groups) : Len(groups[g]) = 1}) = total_students
        /\ \A g \in 1..Len(groups) : Len(groups[g]) \in {0, 1}

\* six students in six groups, each listing four other students of the roster
SixScenario ==
    /\ total_students = SixStudents
    /\ num_groups = SixGroups
    /\ UniqueRoster
    /\ \A i \in 1..Len(students) :
          /\ Len(Friends(students[i])) = FourFriends
          /\ \A f \in 1..FourFriends :
                /\ Friends(students[i])[f] \in Range(students)
                /\ Friends(students[i])[f] # students[i]

C16_GreedyPlacement ==
    [][(pc = "first_pass" /\ pos' = pos + 1 /\ UniqueRoster /\ num_groups >= 1) =>
          LET student == student_priority[pos]
              below == {g \in 1..Len(groups) : Len(groups[g]) < max_size}
              with_friend == {g \in below :
                                Range(groups[g]) \cap Range(Friends(student)) # {}}
              lowest(S) == CHOOSE g \in S : \A h \in S : g <= h
              fewest == {g \in below : \A h \in below : Len(groups[g]) <= Len(groups[h])}
              chosen == IF with_friend # {} THEN lowest(with_friend) ELSE lowest(fewest)
          IN /\ below # {}
             /\ groups' = [groups EXCEPT ![chosen] = Append(@, student)]]_vars

\* a student was put into the group of a friend, and a student with no friend
\* in that group sits alone in a later group
C16_Witness ==
    /\ pc = "first_pass"
    /\ \E g, h \in 1..Len(groups) :
          /\ Len(groups[g]) = 2
          /\ InList(groups[g][1], Friends(groups[g][2]))
          /\ Len(groups[h]) = 1
          /\ Range(Friends(groups[h][1])) \cap Range(groups[g]) = {}
          /\ g < h

\* C18: after every single placement and every single move no student is in two
\* groups or twice in one, the groups hold exactly the students placed so far,
\* the number of groups is num_groups, no placed student leaves the groups,
\* and a move of the balancer keeps the set of placed students the same.
C18_OneGroupThroughout ==
    /\ [](pc \in {"first_pass", "balance"} =>
            /\ NoDuplicates(Flatten(groups))
            /\ Range(Flatten(groups)) = allocated
            /\ Len(groups) = num_groups)
    /\ [][(pc = "first_pass" \/ pc = "balance") =>
            (/\ Range(Flatten(groups)) \subseteq Range(Flatten(groups'))
             /\ Len(groups') = Len(groups)
             /\ (pc = "balance" => Range(Flatten(groups')) = Range(Flatten(groups))))]_vars

\* the balancer has moved a student and is not done yet
C18_Witness ==
    /\ pc = "balance"
    /\ moves > 0
    /\ Spread(groups) > 1
    /\ Len(Flatten(groups)) = Len(students)

\* C20: throughout the two passes of allocate_groups, up to the call of the
\* balancer, no group holds more than floor(total/num_groups) + 2 students when
\* num_groups does not divide the roster size, and no more than
\* floor(total/num_groups) when it does.
C20_CeilingInGreedyPass ==
    (pc = "first_pass" \/ (pc = "balance" /\ iteration = 0)) =>
        \A g \in 1..Len(groups) :
            Len(groups[g]) <= IF Len(students) % num_groups = 0
                              THEN Len(students) \div num_groups
                              ELSE Len(students) \div num_groups + 2

\* friends filled a group up to the ceiling of floor(total/num_groups) + 2
C20_Witness ==
    /\ pc = "first_pass"
    /\ Len(students) % num_groups # 0
    /\ \E g \in 1..Len(groups) : Len(groups[g]) = Len(students) \div num_groups + 2
    /\ \E g \in 1..Len(groups) : groups[g] = <<>>

\* C21: every iteration of the first pass places its student, so that when the
\* first pass ends every student is placed and the second pass (put the student
\* in the smallest group of all) changes nothing.
C21_FirstPassPlacesAll ==
    [][(pc = "first_pass" /\ UniqueRoster /\ num_groups >= 1) =>
          IF pos <= Len(student_priority)
          THEN /\ student_priority[pos] \notin allocated
               /\ allocated' = allocated \cup {student_priority[pos]}
               /\ Len(Flatten(groups')) = Len(Flatten(groups)) + 1
          ELSE /\ allocated = Range(students)
               /\ groups' = groups
               /\ allocated' = allocated]_vars

\* the two passes are over and every group is exactly at the ceiling: the last
\* students placed found only one group below it
C21_Witness ==
    /\ pc = "balance"
    /\ iteration = 0
    /\ Len(students) > num_groups
    /\ \A g \in 1..Len(groups) : Len(groups[g]) = max_size

\* C22: the first pass places the students in ascending order of their number
\* of graph friends, students with the same number in roster order: when a
\* student is placed, the students placed before are exactly those with fewer
\* graph friends and those with as many who come earlier on the roster.
C22_PlacementOrder ==
    [][(pc = "first_pass" /\ allocated' # allocated /\ UniqueRoster) =>
          \A i \in 1..Len(students) :
              students[i] \in allocated' \ allocated =>
                  \A j \in 1..Len(students) :
                      students[j] \in allocated <=>
                          \/ Len(Friends(students[j])) < Len(Friends(students[i]))
                          \/ /\ Len(Friends(students[j])) = Len(Friends(students[i]))
                             /\ j < i]_vars

\* a student with fewer friends is placed while a student earlier on the roster
\* is not, and of two students with equally many the earlier one is placed
C22_Witness ==
    /\ pc = "first_pass"
    /\ \E i, j \in 1..Len(students) :
          /\ i < j
          /\ students[j] \in allocated
          /\ students[i] \notin allocated
    /\ \E i, j \in 1..Len(students) :
          /\ i < j
          /\ Len(Friends(students[i])) = Len(Friends(students[j]))
          /\ students[i] \in allocated
          /\ students[j] \notin allocated

\* C24: the two passes leave every group with at most floor(total/num_groups)
\* + 2 students, the balancer then makes at most 2 * (num_groups - 1) moves,
\* and with num_groups <= 26 allocate_groups returns balanced groups: the cap of
\* 50 iterations does not stop the balancer early.  (All rosters of CapSpec are
\* uniquely named and num_groups is at least 1.)
C24_MovesWithinCap ==
    /\ (pc = "balance" /\ iteration = 0) =>
          \A g \in 1..Len(groups) :
              Len(groups[g]) <= Len(students) \div num_groups + 2
    /\ (pc = "balance" \/ Returned) => moves <= 2 * (num_groups - 1)
    /\ (Returned /\ num_groups <= 26) => Spread(groups) <= 1

\* 26 groups, all but the last filled to the ceiling by a chain of friends:
\* the balancer needed 49 moves and returned balanced groups
C24_Witness ==
    /\ pc = "returned"
    /\ num_groups = 26
    /\ moves = 49
    /\ iteration = 50
    /\ Spread(groups) = 1

\* C14: validate_groups changes neither the partition nor the friendship graph;
\* allocate_groups and balance_groups change neither the friendship graph nor
\* the roster nor num_groups, only the partition being built.
C14_InputsUnchanged ==
    [][/\ friendship_graph' = friendship_graph
       /\ students' = students
       /\ num_groups' = num_groups
       /\ pc = "returned" => groups' = groups]_vars

\* a partition the balancer repaired, with friends listed, has been validated
C14_Witness ==
    /\ pc = "validated"
    /\ moves > 0
    /\ \E i \in 1..Len(students) : Friends(students[i]) # <<>>
    /\ validation.group_sizes = Sizes(groups)

\* C13: allocate_groups called with num_groups zero or negative, or with a
\* roster that holds a name twice, raises an error and never returns a
\* partition.
C13_FailsFast == (num_groups <= 0 \/ ~UniqueRoster) => ~Returned

\* what the code does: a call with num_groups zero or negative always raises
NonPositiveGroupsRaise ==
    /\ num_groups <= 0 => ~Returned
    /\ pc = "raised" => num_groups <= 0

\* what the code does: from a roster with a name twice it returns a partition
\* that holds the name once
DuplicateDropped ==
    (Returned /\ num_groups >= 1) =>
        /\ NoDuplicates(Flatten(groups))
        /\ Range(Flatten(groups)) = Range(students)

----------------------------------------------------------------------------
(* Properties of validate_groups *)

\* the student has at least one of their graph friends in their own group
HasFriendInGroup(student, grps) ==
    \E g \in 1..Len(grps) :
        /\ InList(student, grps[g])
        /\ \E f \in 1..Len(Friends(student)) : InList(Friends(student)[f], grps[g])

Satisfied(grps) == {s \in Range(Flatten(grps)) : HasFriendInGroup(s, grps)}

\* C11: the satisfaction_rate validate_groups reports lies within 0..100, is the
\* percentage of students with at least one graph friend in their own group
\* (to the two decimals reported), and is 0 for a partition without students.
C11_SatisfactionRate ==
    pc = "validated" =>
        LET total == Len(Flatten(groups))
            happy == Cardinality(Satisfied(groups))
            rate == validation.satisfaction_rate
            error == rate * total - 100 * 100 * happy
        IN /\ 0 <= rate /\ rate <= 100 * 100
           /\ total = 0 => rate = 0
           /\ total > 0 => (2 * error <= total /\ -2 * error <= total)

\* a report whose rate is not a whole number of hundredths and was rounded
C11_Witness ==
    /\ pc = "validated"
    /\ Len(Flatten(groups)) > 0
    /\ validation.satisfaction_rate * Len(Flatten(groups))
          # 100 * 100 * Cardinality(Satisfied(groups))

\* C12: in the report total_students is the sum of group_sizes, the buckets 0..4
\* of the histogram sum to total_students, students_with_0_friends is bucket 0
\* and the length of students_without_friends_list, and that list holds exactly
\* the students with no graph friend in their own group.
C12_CountsAgree ==
    pc = "validated" =>
        /\ validation.group_sizes = Sizes(groups)
        /\ validation.total_students = SumSeq(validation.group_sizes)
        /\ SumSeq([i \in 1..5 |-> validation.students_with_friends[i - 1]])
              = validation.total_students
        /\ validation.students_with_0_friends = validation.students_with_friends[0]
        /\ validation.students_with_0_friends
              = Len(validation.students_without_friends_list)
        /\ NoDuplicates(validation.students_without_friends_list)
        /\ Range(validation.students_without_friends_list)
              = Range(Flatten(groups)) \ Satisfied(groups)

\* a report with students in bucket 4 and students without a friend in their group
C12_Witness ==
    /\ pc = "validated"
    /\ validation.students_with_friends[4] > 0
    /\ validation.students_with_0_friends > 0

----------------------------------------------------------------------------
(* Properties of balance_groups *)

\* C3: balance_groups runs at most 50 iterations, each one either returning or
\* moving exactly one student, so it moves at most 50 students and cannot loop
\* further; when it has returned either max(group size) - min(group size) <= 1
\* or exactly 50 students were moved.
C3_BalanceTerminates ==
    /\ [](/\ moves <= iteration
          /\ iteration <= 50
          /\ (Returned => (Spread(groups) <= 1 \/ moves = 50)))
    /\ [][pc = "balance" =>
            \/ pc' = "returned" /\ groups' = groups /\ moves' = moves
            \/ /\ pc' = "balance"
               /\ iteration' = iteration + 1
               /\ moves' = moves + 1
               /\ Len(Flatten(groups')) = Len(Flatten(groups))]_vars

\* the iteration cap stopped the balancer before the groups were balanced
C3_Witness == pc = "returned" /\ moves = 50 /\ Spread(groups) > 1

\* C17: an iteration that finds the groups not balanced moves exactly one
\* student from the first largest group to the end of the first smallest group:
\* the first member of the largest group who has no graph friend in it or has a
\* graph friend in the smallest group, and the last member when there is none.
C17_MoveRule ==
    [][(pc = "balance" /\ pc' = "balance" /\ NoDuplicates(Flatten(groups))) =>
          LET sizes == Sizes(groups)
              first(S) == CHOOSE g \in S : \A h \in S : g <= h
              from == first({g \in 1..Len(groups) : \A h \in 1..Len(groups) : sizes[h] <= sizes[g]})
              to == first({g \in 1..Len(groups) : \A h \in 1..Len(groups) : sizes[g] <= sizes[h]})
              members == groups[from]
              together(s, grp) == Range(Friends(s)) \cap Range(grp) # {}
              qualifying == {k \in 1..Len(members) :
                                \/ ~together(members[k], members)
                                \/ together(members[k], groups[to])}
              k == IF qualifying # {} THEN first(qualifying) ELSE Len(members)
          IN /\ sizes[from] - sizes[to] > 1
             /\ groups' = [groups EXCEPT
                              ![from] = SubSeq(members, 1, k - 1)
                                           \o SubSeq(members, k + 1, Len(members)),
                              ![to] = Append(@, members[k])]]_vars

\* three students who each list one of the others started in one group of two
\* groups: nobody qualified and the last member was moved
C17_Witness ==
    /\ pc \in {"balance", "returned"}
    /\ moves = 1
    /\ groups = <<<<1, 2>>, <<3>>>>
    /\ \A s \in 1..3 : Friends(s) # <<>>

\* C25: across every move of balance_groups the largest group size does not
\* increase and the smallest does not decrease, so the spread max - min does
\* not grow; and no group is both one that has given a student away and one
\* that has received a student.
C25_SpreadNeverGrows ==
    /\ [](gave \cap received = {})
    /\ [][(pc = "balance" /\ groups # <<>> /\ groups' # groups) =>
            /\ MaxOf(Sizes(groups')) <= MaxOf(Sizes(groups))
            /\ MinOf(Sizes(groups')) >= MinOf(Sizes(groups))
            /\ Spread(groups') <= Spread(groups)
            /\ largest_idx \notin received
            /\ smallest_idx \notin gave]_vars

\* the balancer returned after moves out of two different groups into a third
C25_Witness ==
    /\ pc = "returned"
    /\ moves >= 2
    /\ Cardinality(gave) >= 2
    /\ received # {}

\* C23: when max(group size) - min(group size) <= 1, at the call or after some
\* moves, the next step of balance_groups is its return, with every group and
\* the order of its members as they were.
C23_BalancedIsLeftAlone ==
    [][(pc = "balance" /\ groups # <<>> /\ Spread(groups) <= 1) =>
          /\ pc' = "returned"
          /\ groups' = groups
          /\ moves' = moves]_vars

\* balance_groups returned from its first iteration, moving nobody, although a
\* student of the larger group lists a student of the smaller group
C23_Witness ==
    /\ pc = "returned"
    /\ iteration = 1
    /\ moves = 0
    /\ \E g, h \in 1..Len(groups) :
          /\ Len(groups[g]) = Len(groups[h]) + 1
          /\ \E k \in 1..Len(groups[g]) :
                Range(Friends(groups[g][k])) \cap Range(groups[h]) # {}

----------------------------------------------------------------------------
(* Properties of standardize_name *)

IsBlankText(text) == \A i \in 1..Len(text) : text[i] \in Whitespace

Punctuation(text) == SelectSeq(text, LAMBDA c : c \in {"-", "'"})

\* C7: standardize_name returns "" for None, "" and whitespace-only input; its
\* result is lower-case, has no whitespace at either end and no two whitespace
\* characters in a row, and keeps the hyphens and apostrophes of the input;
\* applied to its own result it returns that result unchanged.
C7_Standardized ==
    /\ pc = "standardized" =>
          /\ (name = NoneName \/ IsBlankText(name)) => std_name = <<>>
          /\ \A i \in 1..Len(std_name) : std_name[i] \notin Range(UpperCase)
          /\ std_name # <<>> =>
                std_name[1] \notin Whitespace /\ std_name[Len(std_name)] \notin Whitespace
          /\ \A i \in 1..(Len(std_name) - 1) :
                ~(std_name[i] \in Whitespace /\ std_name[i + 1] \in Whitespace)
          /\ name # NoneName => Punctuation(std_name) = Punctuation(name)
    /\ pc = "restandardized" => std_name = name

\* a name with capitals, a run of mixed whitespace and a hyphen was normalized
\* once and then a second time
C7_Witness ==
    /\ pc = "restandardized"
    /\ \E i \in 1..(Len(std_name) - 2) :
          std_name[i] = "b" /\ std_name[i + 1] = " " /\ std_name[i + 2] = "-"

----------------------------------------------------------------------------
(* Properties of fuzzy_match_friends and build_friendship_graph *)

\* the score of a friend name against a roster name, both standardized
ScoreOf(friend_name, student) ==
    Ratio(standardize_name(friend_name), standardize_name(student))

\* C4: the graph build_friendship_graph returns has exactly the roster as its key
\* set, and every name in a student's list is a roster name other than the
\* student.
C4_GraphKeysNoSelfLoops ==
    (pc = "built" /\ NoDuplicates(student_list)) =>
        /\ DOMAIN friendship_graph = Range(student_list)
        /\ \A student \in DOMAIN friendship_graph :
              \A i \in 1..Len(friendship_graph[student]) :
                  /\ friendship_graph[student][i] \in Range(student_list)
                  /\ friendship_graph[student][i] # student

\* a student entered their own name, which matched and was dropped: the student
\* is a key with an empty list, next to a student who has a friend
C4_Witness ==
    /\ pc = "built"
    /\ \E p \in 1..Len(student_list) :
          /\ \E c \in 1..FriendColumns :
                /\ df[p][c] # <<>>
                /\ standardize_name(df[p][c]) = standardize_name(student_list[p])
          /\ friendship_graph[student_list[p]] = <<>>
    /\ \E student \in DOMAIN friendship_graph : friendship_graph[student] # <<>>

\* C5: when the same friend names are matched against the same roster at a
\* threshold that is not lower, every match accepted at the higher threshold was
\* accepted, with the same roster name, at the lower one.
C5_ThresholdMonotone ==
    [][(pc = "matched" /\ pc' = "matched" /\ threshold <= threshold') =>
          \A i \in 1..Len(matches') :
              matches'[i].value # NoneName =>
                  \E j \in 1..Len(matches) : matches[j] = matches'[i]]_vars

\* a match that is still accepted at the highest threshold
C5_Witness ==
    /\ pc = "matched"
    /\ threshold = 100
    /\ Len(student_list) = MaxRoster
    /\ \E i \in 1..Len(matches) : matches[i].value # NoneName

----------------------------------------------------------------------------
(* Properties of categorize_attendance *)

\* C15: categorize_attendance returns the tier whose displayed range holds the
\* percentage: Tier 3 for 0 .. L-1, Tier 2 for L .. U-1 and Tier 1 for U and
\* above, L and U being the values of the two sliders.
C15_TierAsDisplayed ==
    pc = "categorized" =>
        /\ percentage \in 0..(lower_thresh - 1) => tier = "Tier 3"
        /\ percentage \in lower_thresh..(upper_thresh - 1) => tier = "Tier 2"
        /\ percentage >= upper_thresh => tier = "Tier 1"

\* what the code does: the displayed ranges are the tiers returned whenever the
\* Tier 3 slider is not above the Tier 2 slider, and a percentage at or above
\* the Tier 2 threshold but below the Tier 3 threshold is put in Tier 3
TierWhenSlidersOrdered ==
    pc = "categorized" =>
        /\ lower_thresh <= upper_thresh => C15_TierAsDisplayed
        /\ (upper_thresh <= percentage /\ percentage < lower_thresh) => tier = "Tier 3"

====
